---- MODULE Spec2Model ----
(***************************************************************************)
(* Model of the election contract (src/src/contract.rs): a singleton       *)
(* State {start, end, candidates, votes} kept in the host's storage, the   *)
(* handlers init, handle/try_vote and query/query_vote_info, and the error *)
(* values they return.  Every handler runs to completion as one step.      *)
(***************************************************************************)
EXTENDS Integers, Sequences, FiniteSets, TLC

VARIABLES storage, before, call, ret

vars == <<storage, before, call, ret>>

----------------------------------------------------------------------------
(* Bounds of the model *)

\* block heights supplied by the host are 0..MaxHeight
MaxHeight == 2

\* the vote log is explored up to this length
MaxVotes == 2

\* width of Vote.count in bits (u32 in the source, reduced here)
CountBits == 3

Heights == 0..MaxHeight

\* HumanAddr values: callers and candidates
Addrs == {"a1", "a2"}

\* candidate rosters given in InitMsg
Rosters == {<< >>, <<"a1">>}

----------------------------------------------------------------------------
(* Values *)

\* Option<State> held under the config key
None == << >>
Some(state) == <<state>>

NoError == [kind |-> "none", begin |-> 0, end |-> 0]

\* StdError returned by load/update on an empty slot (spec: NotInitialized)
NotFound == [kind |-> "NotInitialized", begin |-> 0, end |-> 0]

\* error of creating the state twice (spec: AlreadyInitialized)
AlreadyInitialized == [kind |-> "AlreadyInitialized", begin |-> 0, end |-> 0]

\* ContractError::NotAllowance { begin, end } (spec: OutOfWindow)
NotAllowance(b, e) == [kind |-> "OutOfWindow", begin |-> b, end |-> e]

Ok(v) == [ok |-> TRUE, value |-> v, err |-> NoError]
Err(e) == [ok |-> FALSE, value |-> << >>, err |-> e]

\* InitMsg { start, end, candidates }
InitMsg == [start : Heights, end : Heights, candidates : Rosters]

\* VoteInfo { voter, candidate }
VoteInfo(voter, candidate) == [voter |-> voter, candidate |-> candidate]

\* State { start, end, candidates, votes }
State(start, end, candidates, votes) ==
    [start |-> start, end |-> end, candidates |-> candidates, votes |-> votes]

----------------------------------------------------------------------------
(* The singleton store (crate::state::config / config_read) *)

\* config(storage).save(&state): create the singleton
save(st, state) ==
    IF st = None
    THEN [storage |-> Some(state), res |-> Ok(<< >>)]
    ELSE [storage |-> st, res |-> Err(AlreadyInitialized)]

\* config_read(storage).load()
load(st) ==
    IF st = None THEN Err(NotFound) ELSE Ok(st[1])

\* config(storage).update(transform): load, transform, persist on success
\* only.  `result` is the transform applied to the loaded state; it is looked
\* at only when the load succeeded.
update(st, result) ==
    IF ~load(st).ok
    THEN [storage |-> st, res |-> Err(load(st).err)]
    ELSE IF result.ok
         THEN [storage |-> Some(result.value), res |-> Ok(result.value)]
         ELSE [storage |-> st, res |-> Err(result.err)]

----------------------------------------------------------------------------
(* Handlers of contract.rs *)

\* init that stores the bounds the wrong way round
init_swapped(st, msg) ==
    LET state == State(msg.end, msg.start, msg.candidates, << >>)
        s == save(st, state)
    IN  [storage |-> s.storage,
         res |-> IF s.res.ok THEN Ok(<< >>) ELSE Err(s.res.err)]

\* init that drops the error of save and always reports success
init_ignoring_error(st, msg) ==
    LET state == State(msg.start, msg.end, msg.candidates, << >>)
        s == save(st, state)
    IN  [storage |-> s.storage, res |-> Ok(<< >>)]

\* init that refuses a window whose start lies after its end
init_validating(st, msg) ==
    LET state == State(msg.start, msg.end, msg.candidates, << >>)
        s == save(st, state)
    IN  IF msg.start > msg.end
        THEN [storage |-> st, res |-> Err(NotAllowance(msg.start, msg.end))]
        ELSE [storage |-> s.storage,
              res |-> IF s.res.ok THEN Ok(<< >>) ELSE Err(s.res.err)]

\* init: build the State with an empty vote log and save it
init(st, msg) ==
    LET state == State(msg.start, msg.end, msg.candidates, << >>)
        s == save(st, state)
    IN  [storage |-> s.storage,
         res |-> IF s.res.ok THEN Ok(<< >>) ELSE Err(s.res.err)]

\* the window test written with && in place of ||
vote_transform_and(state, height, sender, candidate) ==
    IF height < state.start /\ height > state.end
    THEN Err(NotAllowance(state.start, state.end))
    ELSE Ok([state EXCEPT !.votes = Append(@, VoteInfo(sender, candidate))])

\* the window test with an exclusive upper bound
vote_transform_exclusive(state, height, sender, candidate) ==
    IF height < state.start \/ height >= state.end
    THEN Err(NotAllowance(state.start, state.end))
    ELSE Ok([state EXCEPT !.votes = Append(@, VoteInfo(sender, candidate))])

\* the new record is inserted at the front of the log
vote_transform_prepend(state, height, sender, candidate) ==
    IF height < state.start \/ height > state.end
    THEN Err(NotAllowance(state.start, state.end))
    ELSE Ok([state EXCEPT !.votes = <<VoteInfo(sender, candidate)>> \o @])

\* a second vote of the same voter is accepted but not recorded
vote_transform_dedup(state, height, sender, candidate) ==
    IF height < state.start \/ height > state.end
    THEN Err(NotAllowance(state.start, state.end))
    ELSE IF \E i \in DOMAIN state.votes : state.votes[i].voter = sender
         THEN Ok(state)
         ELSE Ok([state EXCEPT
                      !.votes = Append(@, VoteInfo(sender, candidate))])

\* a vote outside the window is dropped without an error
vote_transform_silent(state, height, sender, candidate) ==
    IF height < state.start \/ height > state.end
    THEN Ok(state)
    ELSE Ok([state EXCEPT !.votes = Append(@, VoteInfo(sender, candidate))])

\* a vote for an identity outside state.candidates is refused
vote_transform_roster_checked(state, height, sender, candidate) ==
    IF height < state.start \/ height > state.end
    THEN Err(NotAllowance(state.start, state.end))
    ELSE IF \A i \in DOMAIN state.candidates : state.candidates[i] # candidate
         THEN Err(NotAllowance(state.start, state.end))
         ELSE Ok([state EXCEPT
                      !.votes = Append(@, VoteInfo(sender, candidate))])

\* the election closes once two votes are recorded
vote_transform_capped(state, height, sender, candidate) ==
    IF height < state.start \/ height > state.end \/ Len(state.votes) >= 2
    THEN Err(NotAllowance(state.start, state.end))
    ELSE Ok([state EXCEPT !.votes = Append(@, VoteInfo(sender, candidate))])

\* the window test without its upper bound
vote_transform_no_upper(state, height, sender, candidate) ==
    IF height < state.start
    THEN Err(NotAllowance(state.start, state.end))
    ELSE Ok([state EXCEPT !.votes = Append(@, VoteInfo(sender, candidate))])

\* the closure given to update in try_vote
vote_transform(state, height, sender, candidate) ==
    IF height < state.start \/ height > state.end
    THEN Err(NotAllowance(state.start, state.end))
    ELSE Ok([state EXCEPT !.votes = Append(@, VoteInfo(sender, candidate))])

\* try_vote without the ? after update: the error is dropped
try_vote_ignoring_error(st, height, sender, candidate) ==
    LET state == load(st).value
        u == update(st, vote_transform(state, height, sender, candidate))
    IN  [storage |-> u.storage, res |-> Ok(<< >>)]

try_vote(st, height, sender, candidate) ==
    LET state == load(st).value
        u == update(st, vote_transform(state, height, sender, candidate))
    IN  [storage |-> u.storage,
         res |-> IF u.res.ok THEN Ok(<< >>) ELSE Err(u.res.err)]

\* handle: HandleMsg::Vote { candidate } is the only message
handle(st, height, sender, candidate) ==
    try_vote(st, height, sender, candidate)

\* a counter that advances by two
increment_twice(count) == (count + 2) % (2 ^ CountBits)

\* a query that aborted: *count += 1 panics on overflow when the build has
\* overflow checks
Panic == [kind |-> "Panic", begin |-> 0, end |-> 0]

\* some counter of the counting loop is incremented past its largest value
overflows(votes) ==
    \E c \in {votes[i].candidate : i \in DOMAIN votes} :
        Cardinality({i \in DOMAIN votes : votes[i].candidate = c})
            >= 2 ^ CountBits

\* *count += 1 on a counter of CountBits bits
increment(count) == (count + 1) % (2 ^ CountBits)

\* the counting loop starts at the second record of the log
RECURSIVE vote_info_skip_first(_)
vote_info_skip_first(votes) ==
    IF Len(votes) <= 1
    THEN << >>
    ELSE LET m == vote_info_skip_first(SubSeq(votes, 1, Len(votes) - 1))
             c == votes[Len(votes)].candidate
             count == IF c \in DOMAIN m THEN m[c] ELSE 0
         IN  [k \in (DOMAIN m) \cup {c} |->
                 IF k = c THEN increment(count) ELSE m[k]]

\* the HashMap filled by the first loop of query_vote_info:
\* entry(candidate).or_insert(0), then += 1, for each vote in log order
RECURSIVE vote_info(_)
vote_info(votes) ==
    IF votes = << >>
    THEN << >>
    ELSE LET m == vote_info(SubSeq(votes, 1, Len(votes) - 1))
             c == votes[Len(votes)].candidate
             count == IF c \in DOMAIN m THEN m[c] ELSE 0
         IN  [k \in (DOMAIN m) \cup {c} |->
                 IF k = c THEN increment(count) ELSE m[k]]

\* the orders in which a HashMap with these keys may be iterated
iter_orders(keys) ==
    {o \in [1..Cardinality(keys) -> keys] :
        \A i, j \in 1..Cardinality(keys) : o[i] = o[j] => i = j}

\* Vote { candidate, count }
Vote(candidate, count) == [candidate |-> candidate, count |-> count]

\* VoteResponse { votes, start, end }
VoteResponse(votes, start, end) ==
    [votes |-> votes, start |-> start, end |-> end]

\* query_vote_info that reports state.start as the end of the window
query_vote_info_start_twice(st) ==
    LET l == load(st)
    IN  IF ~l.ok
        THEN {Err(l.err)}
        ELSE LET state == l.value
                 m == vote_info(state.votes)
             IN  {Ok(VoteResponse([i \in 1..Len(o) |-> Vote(o[i], m[o[i]])],
                                  state.start, state.start)) :
                      o \in iter_orders(DOMAIN m)}

\* query_vote_info that refuses to answer once the window has no votes
query_vote_info_empty_fails(st) ==
    LET l == load(st)
    IN  IF ~l.ok
        THEN {Err(l.err)}
        ELSE LET state == l.value
                 m == vote_info(state.votes)
             IN  IF state.votes = << >>
                 THEN {Err(NotFound)}
                 ELSE {Ok(VoteResponse(
                              [i \in 1..Len(o) |-> Vote(o[i], m[o[i]])],
                              state.start, state.end)) :
                          o \in iter_orders(DOMAIN m)}

\* query_vote_info that starts the HashMap with every roster candidate at 0
query_vote_info_with_roster(st) ==
    LET l == load(st)
    IN  IF ~l.ok
        THEN {Err(l.err)}
        ELSE LET state == l.value
                 v == vote_info(state.votes)
                 roster == {state.candidates[i] : i \in DOMAIN state.candidates}
                 m == [k \in (DOMAIN v) \cup roster |->
                          IF k \in DOMAIN v THEN v[k] ELSE 0]
             IN  {Ok(VoteResponse([i \in 1..Len(o) |-> Vote(o[i], m[o[i]])],
                                  state.start, state.end)) :
                      o \in iter_orders(DOMAIN m)}

\* query_vote_info that returns only the pair the HashMap yields first
query_vote_info_first_only(st) ==
    LET l == load(st)
    IN  IF ~l.ok
        THEN {Err(l.err)}
        ELSE LET state == l.value
                 m == vote_info(state.votes)
             IN  {Ok(VoteResponse(
                         [i \in 1..(IF Len(o) = 0 THEN 0 ELSE 1) |->
                             Vote(o[i], m[o[i]])],
                         state.start, state.end)) :
                      o \in iter_orders(DOMAIN m)}

\* query_vote_info: the set of results it may return, one for each
\* iteration order of the HashMap; when a counter overflows, the wrapped
\* counts (overflow checks off) or a panic (overflow checks on)
query_vote_info(st) ==
    LET l == load(st)
    IN  IF ~l.ok
        THEN {Err(l.err)}
        ELSE LET state == l.value
                 m == vote_info(state.votes)
             IN  {Ok(VoteResponse([i \in 1..Len(o) |-> Vote(o[i], m[o[i]])],
                                  state.start, state.end)) :
                      o \in iter_orders(DOMAIN m)}
                 \cup (IF overflows(state.votes) THEN {Err(Panic)} ELSE {})

\* query: QueryMsg::GetVoteInfo is the only message
query(st) == query_vote_info(st)

----------------------------------------------------------------------------
(* The state machine: one step per invocation by the host *)

NoAddr == ""
NoMsg == [start |-> 0, end |-> 0, candidates |-> << >>]

Call(op, height, sender, candidate, msg) ==
    [op |-> op, height |-> height, sender |-> sender,
     candidate |-> candidate, msg |-> msg]

Init ==
    /\ storage = None
    /\ before = None
    /\ call = Call("none", 0, NoAddr, NoAddr, NoMsg)
    /\ ret = Ok(<< >>)

\* init reads neither _env nor _info
DoInit(msg) ==
    LET r == init(storage, msg)
    IN  /\ storage' = r.storage
        /\ before' = storage
        /\ call' = Call("init", 0, NoAddr, NoAddr, msg)
        /\ ret' = r.res

DoVote(height, sender, candidate) ==
    LET r == handle(storage, height, sender, candidate)
    IN  /\ r.storage # None => Len(r.storage[1].votes) <= MaxVotes
        /\ storage' = r.storage
        /\ before' = storage
        /\ call' = Call("vote", height, sender, candidate, NoMsg)
        /\ ret' = r.res

DoQuery(height) ==
    \E r \in query(storage) :
        /\ storage' = storage
        /\ before' = storage
        /\ call' = Call("query", height, NoAddr, NoAddr, NoMsg)
        /\ ret' = r

Next ==
    \/ \E m \in InitMsg : DoInit(m)
    \/ \E h \in Heights, s \in Addrs, c \in Addrs : DoVote(h, s, c)
    \/ \E h \in Heights : DoQuery(h)

Spec == Init /\ [][Next]_vars

----------------------------------------------------------------------------
(* Operators used to state the properties *)

\* the vote log of a storage slot, empty when there is no state
Log(st) == IF st = None THEN << >> ELSE st[1].votes

InWindow(st, height) == st[1].start <= height /\ height <= st[1].end

IsPrefix(s, t) == Len(s) <= Len(t) /\ SubSeq(t, 1, Len(s)) = s

Range(s) == {s[i] : i \in DOMAIN s}

\* number of records of the log that name candidate c
Records(votes, c) == Cardinality({i \in DOMAIN votes : votes[i].candidate = c})

\* the count a tally response reports for candidate c, 0 when c is not listed
CountOf(resp, c) ==
    LET idx == {i \in DOMAIN resp.votes : resp.votes[i].candidate = c}
    IN  IF idx = {} THEN 0 ELSE resp.votes[CHOOSE i \in idx : TRUE].count

RECURSIVE SumCounts(_)
SumCounts(vs) ==
    IF vs = << >> THEN 0 ELSE vs[1].count + SumCounts(Tail(vs))

----------------------------------------------------------------------------
(* Properties *)

\* C1 (window enforcement): a vote on an initialized ledger at a height below
\* start or above end fails with OutOfWindow carrying the stored start and
\* end, the stored state is the same as before the call, and every tally of
\* the state after the call is a tally of the state before it.
C1_WindowEnforcement ==
    (/\ call.op = "vote"
     /\ before # None
     /\ ~InWindow(before, call.height))
    => /\ ret = Err(NotAllowance(before[1].start, before[1].end))
       /\ storage = before
       /\ \A r \in query(storage) :
              /\ r.ok
              /\ r \in query(before)
              /\ SumCounts(r.value.votes) = Len(before[1].votes)

C1_Witness ==
    /\ call.op = "vote"
    /\ before # None
    /\ before[1].start <= before[1].end
    /\ call.height > before[1].end
    /\ Len(before[1].votes) > 0
    /\ ret.err.kind = "OutOfWindow"

\* C2 (acceptance, inclusive bounds): a vote on an initialized ledger at a
\* height with start <= height <= end succeeds and the tally count of its
\* candidate is one more than before (1 when the candidate was not listed);
\* a vote at height end + 1 fails with OutOfWindow.
C2_Acceptance ==
    /\ (/\ call.op = "vote"
        /\ before # None
        /\ InWindow(before, call.height))
       => /\ ret = Ok(<< >>)
          /\ \A rb \in query(before), ra \in query(storage) :
                 /\ ra.ok
                 /\ CountOf(ra.value, call.candidate)
                        = CountOf(rb.value, call.candidate) + 1
    /\ (/\ call.op = "vote"
        /\ before # None
        /\ call.height = before[1].end + 1)
       => ret = Err(NotAllowance(before[1].start, before[1].end))

C2_Witness ==
    /\ call.op = "vote"
    /\ before # None
    /\ before[1].start < before[1].end
    /\ call.height = before[1].end
    /\ ret.ok
    /\ Records(before[1].votes, call.candidate) = 0
    /\ Records(storage[1].votes, call.candidate) = 1

\* C3 (aggregation): a tally of an initialized ledger succeeds and gives every
\* candidate a count equal to the number of records of the stored log naming
\* it, and the counts add up to the length of the log.
C3_Aggregation ==
    (call.op = "query" /\ storage # None)
    => /\ ret.ok
       /\ \A c \in Addrs :
              CountOf(ret.value, c) = Records(storage[1].votes, c)
       /\ SumCounts(ret.value.votes) = Len(storage[1].votes)

C3_Witness ==
    /\ call.op = "query"
    /\ ret.ok
    /\ Len(storage[1].votes) = MaxVotes
    /\ Len(ret.value.votes) = 2

\* C4 (create never overwrites): a create issued when the state exists fails
\* with AlreadyInitialized and leaves bounds, roster and log as they were.
C4_CreateNeverOverwrites ==
    (call.op = "init" /\ before # None)
    => /\ ret = Err(AlreadyInitialized)
       /\ storage = before

C4_Witness ==
    /\ call.op = "init"
    /\ before # None
    /\ Len(before[1].votes) > 0
    /\ call.msg.start # before[1].start
    /\ call.msg.end # before[1].end
    /\ ~ret.ok

\* C5 (not initialized): a vote or a tally issued before any create fails with
\* NotInitialized and leaves the store absent.
C5_NotInitialized ==
    (call.op \in {"vote", "query"} /\ before = None)
    => /\ ret = Err(NotFound)
       /\ storage = None

C5_Witness ==
    /\ call.op = "vote"
    /\ before = None
    /\ storage = None
    /\ ret.err.kind = "NotInitialized"

\* C6 (append-only log): in every step the log before is a prefix of the log
\* after; a successful vote makes the log the old log followed by the one
\* record {voter: caller, candidate}, and every other outcome leaves the log
\* as it was.
C6_AppendOnly ==
    [][/\ IsPrefix(Log(storage), Log(storage'))
       /\ (call'.op = "vote" /\ ret'.ok)
          => Log(storage')
                 = Append(Log(storage), VoteInfo(call'.sender, call'.candidate))
       /\ ~(call'.op = "vote" /\ ret'.ok)
          => Log(storage') = Log(storage)]_vars

C6_Witness ==
    /\ call.op = "vote"
    /\ ret.ok
    /\ Len(Log(before)) = 1
    /\ Len(Log(storage)) = 2
    /\ Log(storage)[2].voter # Log(before)[1].voter
    /\ Log(storage)[2].candidate # Log(before)[1].candidate

\* C7 (bounds are immutable): a successful create stores the start, end and
\* roster it was given; no step changes the stored start, end or roster; and
\* every tally returns the stored start and end.
C7_BoundsImmutable ==
    [][/\ (call'.op = "init" /\ ret'.ok)
          => /\ storage' # None
             /\ storage'[1].start = call'.msg.start
             /\ storage'[1].end = call'.msg.end
             /\ storage'[1].candidates = call'.msg.candidates
       /\ storage # None
          => /\ storage' # None
             /\ storage'[1].start = storage[1].start
             /\ storage'[1].end = storage[1].end
             /\ storage'[1].candidates = storage[1].candidates
       /\ (call'.op = "query" /\ storage # None)
          => /\ ret'.ok
             /\ ret'.value.start = storage[1].start
             /\ ret'.value.end = storage[1].end]_vars

C7_Witness ==
    /\ call.op = "query"
    /\ ret.ok
    /\ Len(storage[1].votes) >= 2
    /\ storage[1].candidates # << >>
    /\ ret.value.start = storage[1].start
    /\ ret.value.end = storage[1].end
    /\ ret.value.start < ret.value.end

\* C8 (tally is read-only and not time-gated): a tally of an initialized
\* ledger succeeds at whatever height it runs and leaves the stored state
\* unchanged; a tally that directly follows a tally returns the same bounds
\* and the same set of {candidate, count} pairs.
C8_TallyReadOnly ==
    [][(call'.op = "query" /\ storage # None)
       => /\ ret'.ok
          /\ storage' = storage
          /\ (call.op = "query" /\ ret.ok)
             => /\ ret'.value.start = ret.value.start
                /\ ret'.value.end = ret.value.end
                /\ Range(ret'.value.votes) = Range(ret.value.votes)]_vars

C8_Witness ==
    /\ call.op = "query"
    /\ ret.ok
    /\ storage = before
    /\ Len(ret.value.votes) = 2
    /\ call.height < storage[1].start

\* C9 (initialization): a tally that directly follows a successful create
\* returns the start and end given to the create and an empty list of votes.
C9_Initialization ==
    [][(call.op = "init" /\ ret.ok /\ call'.op = "query")
       => ret' = Ok(VoteResponse(<< >>, call.msg.start, call.msg.end))]_vars

C9_Witness ==
    /\ call.op = "query"
    /\ ret.ok
    /\ ret.value.votes = << >>
    /\ ret.value.start # ret.value.end
    /\ storage[1].candidates # << >>
    /\ storage[1].votes = << >>

\* C10 (no deduplication): a vote inside the window that directly follows a
\* successful vote of the same caller for the same candidate succeeds too;
\* the log is then the log before the first of the two followed by two equal
\* records, and the tally count of the candidate has grown by 2.
C10_NoDedup ==
    [][(/\ call.op = "vote"
        /\ ret.ok
        /\ call'.op = "vote"
        /\ call'.sender = call.sender
        /\ call'.candidate = call.candidate
        /\ InWindow(storage, call'.height))
       => /\ ret'.ok
          /\ Log(storage')
                 = Log(before) \o <<VoteInfo(call.sender, call.candidate),
                                    VoteInfo(call.sender, call.candidate)>>
          /\ \A rb \in query(before), ra \in query(storage') :
                 /\ ra.ok
                 /\ CountOf(ra.value, call.candidate)
                        = CountOf(rb.value, call.candidate) + 2]_vars

C10_Witness ==
    /\ call.op = "vote"
    /\ ret.ok
    /\ Len(Log(storage)) = 2
    /\ \A i \in 1..2 : Log(storage)[i] = VoteInfo(call.sender, call.candidate)

\* the stored state with its log replaced
WithLog(st, votes) == Some([st[1] EXCEPT !.votes = votes])

\* the sets of {candidate, count} pairs that the tallies of a state may return
TallySets(st) == {Range(r.value.votes) : r \in query(st)}

\* C11 (order independence): after an accepted vote, every reordering of the
\* stored log, and every log naming the same candidates with other voters,
\* has the same tally as the stored log, compared as a set of
\* {candidate, count} pairs.
C11_OrderIndependence ==
    (call.op = "vote" /\ ret.ok)
    => LET log == Log(storage)
           n == Len(log)
       IN  /\ \A p \in Permutations(1..n) :
                  TallySets(WithLog(storage, [i \in 1..n |-> log[p[i]]]))
                      = TallySets(storage)
           /\ \A v \in [1..n -> Addrs] :
                  TallySets(WithLog(storage,
                      [i \in 1..n |-> VoteInfo(v[i], log[i].candidate)]))
                      = TallySets(storage)
           /\ Cardinality(TallySets(storage)) = 1

C11_Witness ==
    /\ call.op = "vote"
    /\ ret.ok
    /\ Len(Log(storage)) = 2
    /\ Log(storage)[1].candidate # Log(storage)[2].candidate
    /\ Log(storage)[1].voter # Log(storage)[2].voter
    /\ Cardinality(query(storage)) = 2

\* C12 (tally lists exactly the voted-for candidates): in every tally the
\* candidates listed are those named by at least one record of the log, each
\* in exactly one pair and with a count of at least 1; a roster candidate
\* without votes is not listed.
C12_ExactlyVotedFor ==
    (call.op = "query" /\ storage # None)
    => /\ ret.ok
       /\ {v.candidate : v \in Range(ret.value.votes)}
              = {v.candidate : v \in Range(Log(storage))}
       /\ \A i, j \in DOMAIN ret.value.votes :
              ret.value.votes[i].candidate = ret.value.votes[j].candidate
                  => i = j
       /\ \A i \in DOMAIN ret.value.votes : ret.value.votes[i].count >= 1
       /\ \A c \in Range(storage[1].candidates) :
              Records(Log(storage), c) = 0
                  => c \notin {v.candidate : v \in Range(ret.value.votes)}

C12_Witness ==
    /\ call.op = "query"
    /\ ret.ok
    /\ storage[1].candidates = <<"a1">>
    /\ Len(Log(storage)) = 2
    /\ Records(Log(storage), "a1") = 0
    /\ ret.value.votes = <<Vote("a2", 2)>>

\* C13 (serialized invocations): the log starts empty and every invocation
\* changes its length by 1 when it is a vote that returned success and by 0
\* otherwise, so the length of the log is the number of successful votes;
\* every stored record is a whole {voter, candidate} record, and every tally
\* counts exactly the records of the log it was run on.
C13_Serialized ==
    /\ Log(storage) = << >>
    /\ [][/\ Len(Log(storage'))
                = Len(Log(storage))
                      + (IF call'.op = "vote" /\ ret'.ok THEN 1 ELSE 0)
          /\ Range(Log(storage')) \subseteq [voter : Addrs, candidate : Addrs]
          /\ (call'.op = "query" /\ storage # None)
             => /\ ret'.ok
                /\ SumCounts(ret'.value.votes) = Len(Log(storage))]_vars

C13_Witness ==
    /\ call.op = "query"
    /\ ret.ok
    /\ Len(Log(storage)) = 2
    /\ SumCounts(ret.value.votes) = 2
    /\ Len(ret.value.votes) = 2

\* C14 (roster is not enforced): inside the window a vote succeeds whether or
\* not its candidate is in the stored roster, the candidate is listed in every
\* tally taken afterwards with a count of at least 1, and the roster is the
\* same after the vote as before it.
C14_RosterNotEnforced ==
    (/\ call.op = "vote"
     /\ before # None
     /\ InWindow(before, call.height))
    => /\ ret.ok
       /\ storage # None
       /\ storage[1].candidates = before[1].candidates
       /\ \A r \in query(storage) :
              /\ r.ok
              /\ \E v \in Range(r.value.votes) :
                     v.candidate = call.candidate /\ v.count >= 1

C14_Witness ==
    /\ call.op = "vote"
    /\ ret.ok
    /\ before # None
    /\ before[1].candidates = <<"a1">>
    /\ call.candidate = "a2"
    /\ storage[1].candidates = <<"a1">>
    /\ Records(Log(storage), "a2") = 1

\* C15 (no cached open/closed status): whatever invocation came before and
\* whatever it returned, a vote on an initialized ledger is accepted exactly
\* when its height lies within the stored start and end, and is otherwise
\* refused with OutOfWindow; a refused vote does not stop a later one inside
\* the window and accepted votes do not close the window.
C15_NoCachedStatus ==
    [][(call'.op = "vote" /\ storage # None)
       => /\ ret'.ok <=> InWindow(storage, call'.height)
          /\ ~ret'.ok
             => ret' = Err(NotAllowance(storage[1].start, storage[1].end))
          /\ (/\ call.op = "vote"
              /\ ~ret.ok
              /\ InWindow(storage, call'.height))
             => ret'.ok]_vars

C15_Witness ==
    /\ call.op = "vote"
    /\ ret.ok
    /\ Len(Log(before)) = 1
    /\ Len(Log(storage)) = 2
    /\ call.height = storage[1].start
    /\ storage[1].start > 0

\* every [storage, res] that running command c on storage st may produce
Outcomes(st, c) ==
    CASE c.op = "init" -> {init(st, c.msg)}
      [] c.op = "vote" -> {handle(st, c.height, c.sender, c.candidate)}
      [] c.op = "query" -> {[storage |-> st, res |-> r] : r \in query(st)}

\* two results are the same up to the order of the pairs of a tally
SameResult(r1, r2) ==
    /\ r1.ok = r2.ok
    /\ r1.err = r2.err
    /\ IF r1.ok /\ r1.value # << >> /\ r2.value # << >>
       THEN /\ r1.value.start = r2.value.start
            /\ r1.value.end = r2.value.end
            /\ Range(r1.value.votes) = Range(r2.value.votes)
       ELSE r1.value = r2.value

\* C16 (determinism): whatever a second ledger in the same stored state may
\* do with the same command, height and caller, it ends in the same stored
\* state as this one and returns the same success or error, and its tally is
\* the same set of {candidate, count} pairs; only the order of the pairs may
\* differ.
C16_Determinism ==
    [][\A o \in Outcomes(storage, call') :
           /\ o.storage = storage'
           /\ SameResult(o.res, ret')]_vars

C16_Witness ==
    /\ call.op = "query"
    /\ ret.ok
    /\ Cardinality(query(storage)) = 2
    /\ Len(Log(storage)) = 2

----------------------------------------------------------------------------
(* The same handlers under a host whose block height never goes back: the  *)
(* height of an invocation is at least the height of the one before it.    *)

NotEarlier(height) == height >= call.height

\* init reads no height: it runs in the block of the invocation before it, so
\* the latest height is carried in its call record
InitAt(msg) ==
    LET r == init(storage, msg)
    IN  /\ storage' = r.storage
        /\ before' = storage
        /\ call' = Call("init", call.height, NoAddr, NoAddr, msg)
        /\ ret' = r.res

VoteAt(height, sender, candidate) ==
    /\ NotEarlier(height)
    /\ DoVote(height, sender, candidate)

QueryAt(height) ==
    /\ NotEarlier(height)
    /\ DoQuery(height)

NextMonotone ==
    \/ \E m \in InitMsg : InitAt(m)
    \/ \E h \in Heights, s \in Addrs, c \in Addrs : VoteAt(h, s, c)
    \/ \E h \in Heights : QueryAt(h)

SpecMonotone == Init /\ [][NextMonotone]_vars

\* C17 (voting closes for good): with a block height that never goes back,
\* once an invocation has run on an initialized ledger at a height above end,
\* the next invocation runs above end too, a vote is refused, the log stays
\* as it is and a tally returns the pairs of that same log; so this holds of
\* every later invocation.
C17_ClosesForGood ==
    [][(storage # None /\ call.height > storage[1].end)
       => /\ storage' # None
          /\ call'.height > storage'[1].end
          /\ call'.op = "vote" => ~ret'.ok
          /\ Log(storage') = Log(storage)
          /\ call'.op = "query"
             => /\ ret'.ok
                /\ Range(ret'.value.votes) \in TallySets(storage)
                /\ TallySets(storage') = TallySets(storage)]_vars

C17_Witness ==
    /\ call.op = "vote"
    /\ ~ret.ok
    /\ storage # None
    /\ storage[1].start <= storage[1].end
    /\ call.height > storage[1].end
    /\ Len(Log(storage)) >= 2

\* C18 (empty window): a create on an absent state succeeds also when its
\* start lies after its end; in a ledger with start > end the log is empty,
\* every vote fails with OutOfWindow and every tally returns no votes.
C18_EmptyWindow ==
    /\ (call.op = "init" /\ before = None)
       => /\ ret = Ok(<< >>)
          /\ storage = Some(State(call.msg.start, call.msg.end,
                                  call.msg.candidates, << >>))
    /\ (storage # None /\ storage[1].start > storage[1].end)
       => /\ Log(storage) = << >>
          /\ call.op = "vote"
             => ret = Err(NotAllowance(storage[1].start, storage[1].end))
          /\ call.op = "query"
             => ret = Ok(VoteResponse(<< >>, storage[1].start, storage[1].end))
          /\ \A h \in Heights, s \in Addrs, c \in Addrs :
                 ~handle(storage, h, s, c).res.ok

C18_Witness ==
    /\ call.op = "vote"
    /\ storage # None
    /\ storage[1].start > storage[1].end
    /\ storage[1].end < call.height
    /\ call.height < storage[1].start
    /\ ret.err.kind = "OutOfWindow"

----------------------------------------------------------------------------
(* The same handlers with a log long enough for a counter of CountBits     *)
(* bits to overflow: one window that is open at height 0, one voter.       *)

\* the longest log explored here
OverflowVotes == 2 ^ CountBits

WideMsg == [start |-> 0, end |-> MaxHeight, candidates |-> << >>]

ManyVote(height, sender, candidate) ==
    LET r == handle(storage, height, sender, candidate)
    IN  /\ r.storage # None => Len(r.storage[1].votes) <= OverflowVotes
        /\ storage' = r.storage
        /\ before' = storage
        /\ call' = Call("vote", height, sender, candidate, NoMsg)
        /\ ret' = r.res

NextOverflow ==
    \/ DoInit(WideMsg)
    \/ \E c \in Addrs : ManyVote(0, "a1", c)
    \/ DoQuery(0)

SpecOverflow == Init /\ [][NextOverflow]_vars

\* C19 (counts fit their width): in every tally that is returned, the count
\* of every candidate is the number of records of the log naming it, never
\* that number reduced modulo 2^CountBits.
C19_CountsFit ==
    (call.op = "query" /\ storage # None /\ ret.ok)
    => \A c \in Addrs : CountOf(ret.value, c) >= Records(Log(storage), c)

====
